---- MODULE Spec2Model ----
(***************************************************************************)
(* Model of the two-phase reliable fetch orchestrator of web-text-pipe-go  *)
(* (pkg/runner/reliable_scraper.go): ReliableScraper.ScrapeInParallel,     *)
(* processFailedURLs and classifyResults (specification Spec), and of     *)
(* Runner.ScrapeAndRun of pkg/runner/runner.go with its FeedParser and     *)
(* ScraperExecutor collaborators (specification RunnerSpec).               *)
(* RepeatSpec is Spec with a history of earlier invocations on the same   *)
(* scraper, LiveSpec is Spec with the fairness of its steps, and           *)
(* printResults is the output of the scraper command.                      *)
(*                                                                         *)
(* A Go slice is modelled as a record [isNil, elems]: a nil slice and an   *)
(* empty non-nil slice both have elems = <<>> and differ in isNil.         *)
(* A Go error is modelled as a string, NilErr standing for nil.            *)
(***************************************************************************)
EXTENDS Integers, Sequences, FiniteSets, TLC

\* ------------------------------------------------------------------------
\* Bounds of the model
\* ------------------------------------------------------------------------

\* longest URL list handed to ScrapeInParallel
MaxLen == 3

\* the URLs that may occur in an input list (a list may repeat a URL)
URLS == {"A", "B", "C"}

\* the same URLs, in the order in which a list first uses them
URLOrder == <<"A", "B", "C">>

\* ------------------------------------------------------------------------
\* Program constants
\* ------------------------------------------------------------------------

\* InitialScrapeDelay = 5 * time.Second
InitialScrapeDelay == 5

\* RetryScrapeDelay = 3 * time.Second
RetryScrapeDelay == 3

\* ------------------------------------------------------------------------
\* Values
\* ------------------------------------------------------------------------

NilErr == "nil"

\* errors a collaborator may report (nil or a failure)
Errors == {NilErr, "err"}

\* text the bulk fetcher may put in URLResult.Content
BulkContents == {"", "bulk text"}

\* text the Extractor may return on a retry
RetryContents == {"", "retry text"}

\* types.URLResult
URLResult == [URL : URLS, Content : BulkContents \cup RetryContents, Error : Errors]

\* what Extractor.FetchAndExtractText returns: (string, bool, error)
ExtractorResponses == [content : RetryContents, hasBodyFound : BOOLEAN, err : Errors]

\* the zero value of the Extractor's return triple, before any call returned
NoResponse == [content |-> "", hasBodyFound |-> FALSE, err |-> NilErr]

\* all sequences over S of length at most n
SeqUpTo(S, n) == UNION {[1..k -> S] : k \in 0..n}

\* ------------------------------------------------------------------------
\* Go slices
\* ------------------------------------------------------------------------

\* var s []T
NilSlice == [isNil |-> TRUE, elems |-> <<>>]

\* []T{}
EmptySlice == [isNil |-> FALSE, elems |-> <<>>]

\* append(s, x)
GoAppend(s, x) == [isNil |-> FALSE, elems |-> Append(s.elems, x)]

\* append(s, t...): s itself when t has no elements
GoAppendAll(s, t) ==
    IF Len(t.elems) = 0 THEN s
    ELSE [isNil |-> FALSE, elems |-> s.elems \o t.elems]

\* ------------------------------------------------------------------------
\* History of earlier invocations
\* ------------------------------------------------------------------------

\* An earlier invocation on this scraper was given URL "A" and did not return
\* it. The ReliableScraper struct has no field for it: it is kept here so that
\* an invocation can be compared with what went before it.
VARIABLE failedEarlier

\* ------------------------------------------------------------------------
\* classifyResults
\* ------------------------------------------------------------------------

IsBulkFailure_RemembersFailure(res) ==
    res.Error # NilErr \/ res.Content = "" \/ (failedEarlier /\ res.URL = "A")

IsBulkFailure_ErrorOnly(res) == res.Error # NilErr

IsBulkFailure_EmptyOnly(res) == res.Content = ""

\* the condition of the if in classifyResults
IsBulkFailure(res) == res.Error # NilErr \/ res.Content = ""

RECURSIVE classifyLoop(_, _, _, _)
\* the range loop of classifyResults, from index i on
classifyLoop(rs, i, succ, failed) ==
    IF i > Len(rs) THEN [successfulResults |-> succ, failedURLs |-> failed]
    ELSE IF IsBulkFailure(rs[i])
         THEN classifyLoop(rs, i + 1, succ, GoAppend(failed, rs[i].URL))
         ELSE classifyLoop(rs, i + 1, GoAppend(succ, rs[i]), failed)

RECURSIVE classifyLoop_NoElse(_, _, _, _)
classifyLoop_NoElse(rs, i, succ, failed) ==
    IF i > Len(rs) THEN [successfulResults |-> succ, failedURLs |-> failed]
    ELSE IF IsBulkFailure(rs[i])
         THEN classifyLoop_NoElse(rs, i + 1, GoAppend(succ, rs[i]),
                                  GoAppend(failed, rs[i].URL))
         ELSE classifyLoop_NoElse(rs, i + 1, GoAppend(succ, rs[i]), failed)

classifyResults_NoElse(rs) == classifyLoop_NoElse(rs, 1, NilSlice, NilSlice)

RECURSIVE classifyLoop_DropFailed(_, _, _, _)
classifyLoop_DropFailed(rs, i, succ, failed) ==
    IF i > Len(rs) THEN [successfulResults |-> succ, failedURLs |-> failed]
    ELSE IF IsBulkFailure(rs[i])
         THEN classifyLoop_DropFailed(rs, i + 1, succ,
                 IF Len(failed.elems) = 0 THEN GoAppend(failed, rs[i].URL) ELSE failed)
         ELSE classifyLoop_DropFailed(rs, i + 1, GoAppend(succ, rs[i]), failed)

classifyResults_DropFailed(rs) == classifyLoop_DropFailed(rs, 1, NilSlice, NilSlice)

\* classifyResults(results): both named results start as nil slices
classifyResults(rs) == classifyLoop(rs, 1, NilSlice, NilSlice)

\* ------------------------------------------------------------------------
\* processFailedURLs
\* ------------------------------------------------------------------------

IsRetryFailure_ErrorOnly(content, hasBodyFound, err) == err # NilErr

IsRetryFailure_BothMissing(content, hasBodyFound, err) ==
    IF err # NilErr THEN TRUE
    ELSE content = "" /\ ~hasBodyFound

\* extractErr != nil: the Extractor failed, or returned no usable body
IsRetryFailure(content, hasBodyFound, err) ==
    IF err # NilErr THEN TRUE
    ELSE content = "" \/ ~hasBodyFound

RetryURL_Reversed(failed, i) == failed.elems[Len(failed.elems) + 1 - i]

\* the url of the i-th iteration of `for _, url := range failedURLs`
RetryURL(failed, i) == failed.elems[i]

ContinueRetries_StopOnFailure(failed, next, lastFailed) ==
    ~lastFailed /\ next <= Len(failed.elems)

\* whether the range loop over failedURLs has a further iteration at position
\* next; the outcome of the iteration just finished plays no part in it
ContinueRetries(failed, next, lastFailed) == next <= Len(failed.elems)

AfterCall_NotAwaited(failed, i) == "retryCall"

\* where the loop stands once FetchAndExtractText has been called: the call
\* is synchronous, the loop waits for its return
AfterCall(failed, i) == "retryWait"

BetweenRetries_Pause(s) == Append(s, RetryScrapeDelay)

\* the sleeps recorded when one retry iteration ends: the loop body holds no
\* time.Sleep
BetweenRetries(s) == s

RetriedResult_NoContent(url, content) == [URL |-> url, Content |-> "", Error |-> NilErr]

\* types.URLResult{URL: url, Content: content, Error: nil}
RetriedResult(url, content) == [URL |-> url, Content |-> content, Error |-> NilErr]

\* the error of `return retriedSuccessfulResults, nil`
ReturnedError == NilErr

\* ------------------------------------------------------------------------
\* ScrapeInParallel
\* ------------------------------------------------------------------------

Sleep_Skipped(s, d) == s

Sleep_Twice(s, d) == Append(Append(s, d), d)

\* time.Sleep(d), recorded in the sequence s of the sleeps taken so far
Sleep(s, d) == Append(s, d)

NeedsRetry_Always(failed) == TRUE

NeedsRetry_MoreThanOne(failed) == Len(failed.elems) > 1

\* if len(failedURLs) > 0
NeedsRetry(failed) == Len(failed.elems) > 0

MergeResults_RetriedFirst(succ, retried) == GoAppendAll(retried, succ)

MergeResults_RetriedTwice(succ, retried) ==
    GoAppendAll(GoAppendAll(succ, retried), retried)

MergeResults_DropRetried(succ, retried) == succ

\* successfulResults = append(successfulResults, retriedSuccessfulResults...)
MergeResults(succ, retried) == GoAppendAll(succ, retried)

FinalResult_NoEmptyCheck(succ) == succ

\* the final check: an empty literal when nothing succeeded, else the merged list
FinalResult(succ) == IF Len(succ.elems) = 0 THEN EmptySlice ELSE succ

\* ------------------------------------------------------------------------
\* The scraper command: printResults
\* ------------------------------------------------------------------------

RECURSIVE printLoop(_, _, _)
\* the range loop of printResults, from index i on: an error line and
\* errorCount++ for a result with an error, a success line and successCount++
\* for any other
printLoop(rs, i, out) ==
    IF i > Len(rs) THEN out
    ELSE IF rs[i].Error # NilErr
         THEN printLoop(rs, i + 1,
                  [out EXCEPT !.errorCount = @ + 1,
                              !.lines = Append(@, [mark |-> "error", n |-> i,
                                                   URL |-> rs[i].URL,
                                                   Error |-> rs[i].Error])])
         ELSE printLoop(rs, i + 1,
                  [out EXCEPT !.successCount = @ + 1,
                              !.lines = Append(@, [mark |-> "success", n |-> i,
                                                   URL |-> rs[i].URL,
                                                   Error |-> NilErr])])

\* printResults(results, verbose): the entries printed and the two counts of
\* the summary line
printResults(rs) ==
    printLoop(rs, 1, [successCount |-> 0, errorCount |-> 0, lines |-> <<>>])

\* ------------------------------------------------------------------------
\* Runner.ScrapeAndRun: values
\* ------------------------------------------------------------------------

\* client timeouts, in seconds, and overall-timeout multipliers a caller may
\* configure (the commands pass 2 and 60 as multiplier)
ClientTimeouts == {10, 30}

Multipliers == {2, 60}

\* RunnerConfig
RunnerConfigs ==
    [FeedURL : {"feed url"}, ClientTimeout : ClientTimeouts,
     OverallTimeoutMultiplier : Multipliers]

\* the zero RunnerConfig
NoConfig == [FeedURL |-> "", ClientTimeout |-> 0, OverallTimeoutMultiplier |-> 0]

\* errors FeedParser.FetchAndParse may return
FeedErrors == {"fetch failed", "parse failed"}

FeedTitles == {"Feed 1", "Feed 2"}

\* the title of the feed item whose link is u
ItemTitle(u) == "title of " \o u

\* no feed (a nil *gofeed.Feed)
NoFeed == [Title |-> "", Links |-> <<>>]

\* an error value: its message and the error it wraps (NilErr when none);
\* NoError is the nil error
NoError == [msg |-> "", wraps |-> NilErr]

\* no context derived yet
NoCtx == [parent |-> "", timeout |-> 0, cancelled |-> FALSE]

\* a nil *RunnerResult
NilResult ==
    [isNil |-> TRUE, FeedTitle |-> "", Results |-> NilSlice, TitlesMap |-> <<>>]

\* ------------------------------------------------------------------------
\* State
\* ------------------------------------------------------------------------

VARIABLES
    pc,                        \* position of the ScrapeInParallel invocation
    urls,                      \* the urls argument
    results,                   \* what baseScraper.ScrapeInParallel returned
    successfulResults,         \* slice of URLResult
    failedURLs,                \* slice of URL strings
    initialSuccessfulCount,
    retriedSuccessfulResults,  \* slice of URLResult, local to processFailedURLs
    retryErr,                  \* the error processFailedURLs returned
    idx,                       \* 1-based position of the range loop over failedURLs
    resp,                      \* the triple the last Extractor call returned
    ret,                       \* the slice ScrapeInParallel returned
    extractorCalls,            \* URLs passed to extractor.FetchAndExtractText, in call order
    retryLog,                  \* per finished retry: the url and whether slog reported success
    sleeps,                    \* durations passed to time.Sleep, in call order
    ctxDone                    \* the ctx argument has been cancelled or has expired

\* Runner.ScrapeAndRun
VARIABLES
    rpc,                       \* position of the ScrapeAndRun invocation
    config,                    \* the RunnerConfig argument
    runCtx,                    \* the context derived by context.WithTimeout
    rssFeed,                   \* the feed FetchAndParse returned
    feedErr,                   \* the error FetchAndParse returned
    feedCalls,                 \* calls of FeedParser.FetchAndParse: context and feed URL
    scrapeCalls,               \* calls of ScraperExecutor.ScrapeInParallel: context and urls
    scraped,                   \* the slice ScraperExecutor.ScrapeInParallel returned
    runResult,                 \* the *RunnerResult ScrapeAndRun returned
    runErr                     \* the error ScrapeAndRun returned

scraperVars == <<pc, urls, results, successfulResults, failedURLs,
                 initialSuccessfulCount, retriedSuccessfulResults, retryErr, idx,
                 resp, ret,
                 extractorCalls, retryLog, sleeps, ctxDone, failedEarlier>>

runnerVars == <<rpc, config, runCtx, rssFeed, feedErr, feedCalls, scrapeCalls,
                scraped, runResult, runErr>>

vars == <<scraperVars, runnerVars>>

PCs == {"idle", "bulk", "initialDelay", "classify", "retryDelay", "retryCall",
        "retryWait", "final", "done"}

\* s is a sequence of at most n elements of S
IsSeqOf(s, S, n) ==
    /\ DOMAIN s = 1..Len(s)
    /\ Len(s) <= n
    /\ \A i \in 1..Len(s) : s[i] \in S

\* s is a slice of at most n elements of S
IsSliceOf(s, S, n) ==
    /\ s.isNil \in BOOLEAN
    /\ IsSeqOf(s.elems, S, n)
    /\ s.isNil => Len(s.elems) = 0

TypeOK ==
    /\ pc \in PCs
    /\ IsSeqOf(urls, URLS, MaxLen)
    /\ IsSeqOf(results, URLResult, MaxLen)
    /\ IsSliceOf(successfulResults, URLResult, MaxLen)
    /\ IsSliceOf(failedURLs, URLS, MaxLen)
    /\ initialSuccessfulCount \in 0..MaxLen
    /\ IsSliceOf(retriedSuccessfulResults, URLResult, MaxLen)
    /\ retryErr \in Errors
    /\ idx \in 1..(MaxLen + 1)
    /\ resp \in ExtractorResponses
    /\ IsSliceOf(ret, URLResult, MaxLen)
    /\ IsSeqOf(extractorCalls, URLS, MaxLen)
    /\ IsSeqOf(retryLog, [url : URLS, ok : BOOLEAN], MaxLen)
    /\ IsSeqOf(sleeps, {InitialScrapeDelay, RetryScrapeDelay}, 2)
    /\ ctxDone \in BOOLEAN
    /\ failedEarlier \in BOOLEAN

\* NewReliableScraper: the scraper holds only its two collaborators
Init ==
    /\ pc = "idle"
    /\ urls = <<>>
    /\ results = <<>>
    /\ successfulResults = NilSlice
    /\ failedURLs = NilSlice
    /\ initialSuccessfulCount = 0
    /\ retriedSuccessfulResults = NilSlice
    /\ retryErr = NilErr
    /\ idx = 1
    /\ resp = NoResponse
    /\ ret = NilSlice
    /\ extractorCalls = <<>>
    /\ retryLog = <<>>
    /\ sleeps = <<>>
    /\ ctxDone = FALSE
    /\ failedEarlier = FALSE
    /\ rpc = "idle"
    /\ config = NoConfig
    /\ runCtx = NoCtx
    /\ rssFeed = NoFeed
    /\ feedErr = NilErr
    /\ feedCalls = <<>>
    /\ scrapeCalls = <<>>
    /\ scraped = NilSlice
    /\ runResult = NilResult
    /\ runErr = NoError

\* ------------------------------------------------------------------------
\* Actions
\* ------------------------------------------------------------------------

\* A caller invokes ScrapeInParallel(ctx, u) and the call to
\* baseScraper.ScrapeInParallel is issued.
Invoke(u) ==
    /\ pc = "idle"
    /\ pc' = "bulk"
    /\ urls' = u
    /\ UNCHANGED <<results, successfulResults, failedURLs, initialSuccessfulCount,
                   retriedSuccessfulResults, idx, resp, ret, extractorCalls,
                   retryLog, sleeps, ctxDone>>
    /\ UNCHANGED <<retryErr, failedEarlier, runnerVars>>

\* what the bulk fetcher may report about one URL
BulkOutcomes == [Content : BulkContents, Error : Errors]

\* what the bulk fetcher may return for the list u: one URLResult per input
\* URL, in input order, each with any content and any error
BulkOutputs(u) ==
    {[i \in 1..Len(u) |->
        [URL |-> u[i], Content |-> o[i].Content, Error |-> o[i].Error]] :
     o \in [1..Len(u) -> BulkOutcomes]}

\* results := r.baseScraper.ScrapeInParallel(ctx, urls)
BulkReturn(rs) ==
    /\ pc = "bulk"
    /\ rs \in BulkOutputs(urls)
    /\ results' = rs
    /\ pc' = "initialDelay"
    /\ UNCHANGED <<urls, successfulResults, failedURLs, initialSuccessfulCount,
                   retriedSuccessfulResults, idx, resp, ret, extractorCalls,
                   retryLog, sleeps, ctxDone>>
    /\ UNCHANGED <<retryErr, failedEarlier, runnerVars>>

\* time.Sleep(InitialScrapeDelay)
InitialDelay ==
    /\ pc = "initialDelay"
    /\ sleeps' = Sleep(sleeps, InitialScrapeDelay)
    /\ pc' = "classify"
    /\ UNCHANGED <<urls, results, successfulResults, failedURLs,
                   initialSuccessfulCount, retriedSuccessfulResults, idx, resp,
                   ret, extractorCalls, retryLog, ctxDone>>
    /\ UNCHANGED <<retryErr, failedEarlier, runnerVars>>

\* successfulResults, failedURLs := classifyResults(results), the count, and
\* the branch on len(failedURLs) > 0
Classify ==
    /\ pc = "classify"
    /\ LET c == classifyResults(results) IN
        /\ successfulResults' = c.successfulResults
        /\ failedURLs' = c.failedURLs
        /\ initialSuccessfulCount' = Len(c.successfulResults.elems)
        /\ pc' = IF NeedsRetry(c.failedURLs) THEN "retryDelay" ELSE "final"
    /\ UNCHANGED <<urls, results, retriedSuccessfulResults, idx, resp, ret,
                   extractorCalls, retryLog, sleeps, ctxDone>>
    /\ UNCHANGED <<retryErr, failedEarlier, runnerVars>>

\* processFailedURLs up to the loop: time.Sleep(retryDelay) and
\* var retriedSuccessfulResults []types.URLResult
RetryDelay ==
    /\ pc = "retryDelay"
    /\ sleeps' = Sleep(sleeps, RetryScrapeDelay)
    /\ retriedSuccessfulResults' = NilSlice
    /\ idx' = 1
    /\ pc' = IF ContinueRetries(failedURLs, 1, FALSE) THEN "retryCall" ELSE "final"
    /\ successfulResults' =
          IF ContinueRetries(failedURLs, 1, FALSE) THEN successfulResults
          ELSE MergeResults(successfulResults, NilSlice)
    /\ retryErr' =
          IF ContinueRetries(failedURLs, 1, FALSE) THEN retryErr ELSE ReturnedError
    /\ UNCHANGED <<urls, results, failedURLs, initialSuccessfulCount, resp, ret,
                   extractorCalls, retryLog, ctxDone>>
    /\ UNCHANGED <<failedEarlier, runnerVars>>

\* r.extractor.FetchAndExtractText(ctx, url) is called for the current url
RetryCall ==
    /\ pc = "retryCall"
    /\ extractorCalls' = Append(extractorCalls, RetryURL(failedURLs, idx))
    /\ pc' = AfterCall(failedURLs, idx)
    /\ UNCHANGED <<urls, results, successfulResults, failedURLs,
                   initialSuccessfulCount, retriedSuccessfulResults, idx, resp,
                   ret, retryLog, sleeps, ctxDone>>
    /\ UNCHANGED <<retryErr, failedEarlier, runnerVars>>

\* The Extractor returns e; the loop body classifies it, logs it, keeps a
\* success, and moves to the next url. After the last url processFailedURLs
\* returns and ScrapeInParallel appends the retried successes.
RetryReturn(e) ==
    /\ pc = "retryWait"
    /\ resp' = e
    /\ LET url == RetryURL(failedURLs, idx)
           failed == IsRetryFailure(e.content, e.hasBodyFound, e.err)
           retried == IF failed THEN retriedSuccessfulResults
                      ELSE GoAppend(retriedSuccessfulResults,
                                    RetriedResult(url, e.content))
       IN
        /\ retryLog' = Append(retryLog, [url |-> url, ok |-> ~failed])
        /\ retriedSuccessfulResults' = retried
        /\ idx' = idx + 1
        /\ sleeps' = BetweenRetries(sleeps)
        /\ IF ContinueRetries(failedURLs, idx + 1, failed)
           THEN /\ pc' = "retryCall"
                /\ UNCHANGED <<successfulResults, retryErr>>
           ELSE /\ pc' = "final"
                /\ retryErr' = ReturnedError
                /\ successfulResults' = MergeResults(successfulResults, retried)
    /\ UNCHANGED <<urls, results, failedURLs, initialSuccessfulCount, ret,
                   extractorCalls, ctxDone>>
    /\ UNCHANGED <<failedEarlier, runnerVars>>

\* the final check and the return
Final ==
    /\ pc = "final"
    /\ ret' = FinalResult(successfulResults)
    /\ pc' = "done"
    /\ UNCHANGED <<urls, results, successfulResults, failedURLs,
                   initialSuccessfulCount, retriedSuccessfulResults, idx, resp,
                   extractorCalls, retryLog, sleeps, ctxDone>>
    /\ UNCHANGED <<retryErr, failedEarlier, runnerVars>>

\* The caller has taken the returned slice; the invocation's locals are gone
\* and the scraper is left with its two collaborators only. earlier is what
\* the history says from now on.
Release(earlier) ==
    /\ pc = "done"
    /\ pc' = "idle"
    /\ urls' = <<>>
    /\ results' = <<>>
    /\ successfulResults' = NilSlice
    /\ failedURLs' = NilSlice
    /\ initialSuccessfulCount' = 0
    /\ retriedSuccessfulResults' = NilSlice
    /\ retryErr' = NilErr
    /\ idx' = 1
    /\ resp' = NoResponse
    /\ ret' = NilSlice
    /\ extractorCalls' = <<>>
    /\ retryLog' = <<>>
    /\ sleeps' = <<>>
    /\ ctxDone' = FALSE
    /\ failedEarlier' = earlier
    /\ UNCHANGED runnerVars

\* the invocation is over; the history is left as it was
Finish == Release(failedEarlier)

\* u was in the URL list of this invocation and is not in the returned slice
NotReturned(u) ==
    /\ \E i \in 1..Len(urls) : urls[i] = u
    /\ \A j \in 1..Len(ret.elems) : ret.elems[j].URL # u

\* the invocation is over, and the history notes a failure of "A" in it
FinishNoted == Release(failedEarlier \/ NotReturned("A"))

\* The caller's context is cancelled or its deadline passes while the
\* invocation runs. ScrapeInParallel and processFailedURLs only hand ctx on to
\* the collaborators; no statement of theirs reads it.
Cancel ==
    /\ pc \notin {"idle", "done"}
    /\ ~ctxDone
    /\ ctxDone' = TRUE
    /\ UNCHANGED <<pc, urls, results, successfulResults, failedURLs,
                   initialSuccessfulCount, retriedSuccessfulResults, idx, resp,
                   ret, extractorCalls, retryLog, sleeps>>
    /\ UNCHANGED <<retryErr, failedEarlier, runnerVars>>

\* The orchestrator only copies URL strings and never inspects them, so the
\* input lists are taken up to renaming of the URLs: the first URL of a
\* list is "A", and a further URL is used only after the one before it in
\* URLOrder. Repetitions are kept: <<"A", "A">>, <<"A", "B", "A">>, ...
IsCanonical(u) ==
    \A i \in 1..Len(u) :
        \E k \in 1..Len(URLOrder) :
            /\ u[i] = URLOrder[k]
            /\ k = 1 \/ \E j \in 1..(i - 1) : u[j] = URLOrder[k - 1]

\* the URL lists a caller may pass, the empty list included
InputLists == {u \in SeqUpTo(URLS, MaxLen) : IsCanonical(u)}

InvokeAny == pc = "idle" /\ \E u \in InputLists : Invoke(u)

BulkReturnAny == pc = "bulk" /\ \E rs \in BulkOutputs(urls) : BulkReturn(rs)

RetryReturnAny == pc = "retryWait" /\ \E e \in ExtractorResponses : RetryReturn(e)

Next ==
    \/ InvokeAny
    \/ BulkReturnAny
    \/ InitialDelay
    \/ Classify
    \/ RetryDelay
    \/ RetryCall
    \/ RetryReturnAny
    \/ Final
    \/ Finish
    \/ Cancel

Spec == Init /\ [][Next]_vars

\* invocation after invocation on one scraper, with the history kept
RepeatNext ==
    \/ InvokeAny
    \/ BulkReturnAny
    \/ InitialDelay
    \/ Classify
    \/ RetryDelay
    \/ RetryCall
    \/ RetryReturnAny
    \/ Final
    \/ FinishNoted
    \/ Cancel

RepeatSpec == Init /\ [][RepeatNext]_vars

\* Once the bulk fetcher has returned, every step of ScrapeInParallel is taken
\* in time: a time.Sleep ends, a statement that can run does run, and a call
\* of the Extractor returns. Nothing is assumed of the caller, of the bulk
\* fetcher or of the cancellation of the context.
Progress ==
    /\ WF_vars(InitialDelay)
    /\ WF_vars(Classify)
    /\ WF_vars(RetryDelay)
    /\ WF_vars(RetryCall)
    /\ WF_vars(RetryReturnAny)
    /\ WF_vars(Final)

LiveSpec == Spec /\ Progress

\* ------------------------------------------------------------------------
\* Runner.ScrapeAndRun: steps of the code
\* ------------------------------------------------------------------------

OverallTimeout_ClientOnly(cfg) == cfg.ClientTimeout

\* overallTimeout := config.ClientTimeout * time.Duration(config.OverallTimeoutMultiplier)
OverallTimeout(cfg) == cfg.ClientTimeout * cfg.OverallTimeoutMultiplier

\* context.WithTimeout(ctx, overallTimeout)
WithTimeout(parent, t) == [parent |-> parent, timeout |-> t, cancelled |-> FALSE]

CancelCtx_NotRun(c) == c

\* cancel(), run by the defer when ScrapeAndRun returns
CancelCtx(c) == [c EXCEPT !.cancelled = TRUE]

FeedFailed_Never(err) == FALSE

\* if err != nil, after FetchAndParse
FeedFailed(err) == err # NilErr

WrapFeedError_NotWrapped(err) == [msg |-> "feed processing error", wraps |-> NilErr]

\* fmt.Errorf("...: %w", err)
WrapFeedError(err) == [msg |-> "feed processing error", wraps |-> err]

\* fmt.Errorf(...) of the empty URL list
NoURLsError == [msg |-> "no URL extracted from the feed", wraps |-> NilErr]

\* adapter.GetLinks(): the links of the feed items, in feed order
GetLinks(feed) == feed.Links

\* adapter.GetTitlesMap(): URL to article title
GetTitlesMap(feed) ==
    [u \in {feed.Links[i] : i \in 1..Len(feed.Links)} |-> ItemTitle(u)]

NothingToProcess_Never(us) == FALSE

\* if len(urls) == 0
NothingToProcess(us) == Len(us) = 0

NewRunnerResult_NilWhenEmpty(feed, res) ==
    IF Len(res.elems) = 0 THEN NilResult
    ELSE [isNil |-> FALSE, FeedTitle |-> feed.Title, Results |-> res,
          TitlesMap |-> GetTitlesMap(feed)]

\* &RunnerResult{FeedTitle: rssFeed.Title, Results: results, TitlesMap: titlesMap}
NewRunnerResult(feed, res) ==
    [isNil |-> FALSE, FeedTitle |-> feed.Title, Results |-> res,
     TitlesMap |-> GetTitlesMap(feed)]

\* ------------------------------------------------------------------------
\* Runner.ScrapeAndRun: actions
\* ------------------------------------------------------------------------

\* ScrapeAndRun(ctx, cfg) is invoked: the bounded context is derived and
\* FeedParser.FetchAndParse is called with it
RunnerStart(cfg) ==
    /\ rpc = "idle"
    /\ config' = cfg
    /\ runCtx' = WithTimeout("ctx", OverallTimeout(cfg))
    /\ feedCalls' = Append(feedCalls, [ctx |-> "runCtx", url |-> cfg.FeedURL])
    /\ rpc' = "feed"
    /\ UNCHANGED <<rssFeed, feedErr, scrapeCalls, scraped, runResult, runErr>>
    /\ UNCHANGED scraperVars

\* FetchAndParse returns (feed, err): on an error ScrapeAndRun returns it
\* wrapped; with no URL in the feed it returns an error; otherwise it calls
\* ScraperExecutor.ScrapeInParallel with the bounded context and the URLs
FeedReturn(feed, err) ==
    /\ rpc = "feed"
    /\ rssFeed' = feed
    /\ feedErr' = err
    /\ IF FeedFailed(err)
       THEN /\ runResult' = NilResult
            /\ runErr' = WrapFeedError(err)
            /\ runCtx' = CancelCtx(runCtx)
            /\ rpc' = "returned"
            /\ UNCHANGED scrapeCalls
       ELSE IF NothingToProcess(GetLinks(feed))
       THEN /\ runResult' = NilResult
            /\ runErr' = NoURLsError
            /\ runCtx' = CancelCtx(runCtx)
            /\ rpc' = "returned"
            /\ UNCHANGED scrapeCalls
       ELSE /\ scrapeCalls' =
                  Append(scrapeCalls, [ctx |-> "runCtx", urls |-> GetLinks(feed)])
            /\ rpc' = "scrape"
            /\ UNCHANGED <<runResult, runErr, runCtx>>
    /\ UNCHANGED <<config, feedCalls, scraped>>
    /\ UNCHANGED scraperVars

\* ScraperExecutor.ScrapeInParallel returns res: it is packaged with the feed
\* title and the titles map and returned with a nil error
ScrapeReturn(res) ==
    /\ rpc = "scrape"
    /\ scraped' = res
    /\ runResult' = NewRunnerResult(rssFeed, res)
    /\ runErr' = NoError
    /\ runCtx' = CancelCtx(runCtx)
    /\ rpc' = "returned"
    /\ UNCHANGED <<config, rssFeed, feedErr, feedCalls, scrapeCalls>>
    /\ UNCHANGED scraperVars

\* The caller has taken the result; nothing of the run is kept in the Runner
RunnerFinish ==
    /\ rpc = "returned"
    /\ rpc' = "idle"
    /\ config' = NoConfig
    /\ runCtx' = NoCtx
    /\ rssFeed' = NoFeed
    /\ feedErr' = NilErr
    /\ feedCalls' = <<>>
    /\ scrapeCalls' = <<>>
    /\ scraped' = NilSlice
    /\ runResult' = NilResult
    /\ runErr' = NoError
    /\ UNCHANGED scraperVars

\* what FetchAndParse may return: an error and no feed, or a feed with a
\* title and item links
FeedResponses ==
    {[feed |-> NoFeed, err |-> e] : e \in FeedErrors}
        \cup {[feed |-> [Title |-> t, Links |-> l], err |-> NilErr] :
                t \in FeedTitles, l \in InputLists}

\* what a ScraperExecutor may report about one URL: a result of any content
\* and error, or none
ExecutorOutcomes == BulkOutcomes \cup {[Content |-> "", Error |-> "omitted"]}

RECURSIVE CollectResults(_, _, _)
\* the results chosen by o for the URLs of u from position i on
CollectResults(u, o, i) ==
    IF i > Len(u) THEN <<>>
    ELSE IF o[i].Error = "omitted" THEN CollectResults(u, o, i + 1)
    ELSE <<[URL |-> u[i], Content |-> o[i].Content, Error |-> o[i].Error]>>
            \o CollectResults(u, o, i + 1)

\* the slices a ScraperExecutor may return for the list u: results for any
\* of the URLs, in input order; an empty one may be nil or not
ExecutorOutputs(u) ==
    {[isNil |-> FALSE, elems |-> CollectResults(u, o, 1)] :
        o \in [1..Len(u) -> ExecutorOutcomes]} \cup {NilSlice}

RunnerStartAny == rpc = "idle" /\ \E cfg \in RunnerConfigs : RunnerStart(cfg)

FeedReturnAny == rpc = "feed" /\ \E r \in FeedResponses : FeedReturn(r.feed, r.err)

ScrapeReturnAny ==
    rpc = "scrape" /\ \E res \in ExecutorOutputs(GetLinks(rssFeed)) : ScrapeReturn(res)

RunnerNext ==
    \/ RunnerStartAny
    \/ FeedReturnAny
    \/ ScrapeReturnAny
    \/ RunnerFinish

RunnerSpec == Init /\ [][RunnerNext]_vars

\* ------------------------------------------------------------------------
\* Vocabulary of the properties
\* ------------------------------------------------------------------------

\* the URLs of a sequence of URLResult, in order
URLsOf(rs) == [i \in 1..Len(rs) |-> rs[i].URL]

\* the elements of a sequence
Range(s) == {s[i] : i \in 1..Len(s)}

\* no element occurs twice
NoDup(s) == \A i, j \in 1..Len(s) : s[i] = s[j] => i = j

\* a result with no error and some content
Usable(res) == res.Error = NilErr /\ res.Content # ""

NotUsable(res) == ~Usable(res)

\* the bulk results that are usable / unusable, in bulk output order
BulkSuccesses == SelectSeq(results, Usable)

BulkFailures == SelectSeq(results, NotUsable)

LoggedOK(entry) == entry.ok

\* the URLs whose retry was logged as a success, in retry-attempt order
RetrySuccessURLs ==
    LET oks == SelectSeq(retryLog, LoggedOK) IN [j \in 1..Len(oks) |-> oks[j].url]

\* the URLs whose retry finished, in retry-attempt order
RetriedURLs == [j \in 1..Len(retryLog) |-> retryLog[j].url]

\* ScrapeInParallel has returned and ret is its result
Returned == pc = "done"

\* the bulk fetcher has returned
BulkDone == pc \notin {"idle", "bulk"}

\* classifyResults has returned and its two outputs are not yet merged
AfterClassify ==
    \/ pc \in {"retryDelay", "retryCall", "retryWait"}
    \/ pc = "final" /\ Len(failedURLs.elems) = 0

InSuccessful(u) == u \in Range(URLsOf(successfulResults.elems))

InFailed(u) == u \in Range(failedURLs.elems)

\* ------------------------------------------------------------------------
\* Properties
\* ------------------------------------------------------------------------

\* C1: when the bulk output is non-empty and every result has no error and
\* non-empty content, no retry phase takes place (the Extractor is never
\* called and the retry delay is never slept) and ScrapeInParallel returns
\* exactly the bulk results, in the same order.
C1_AllBulkSuccess ==
    (BulkDone /\ Len(results) > 0 /\ \A i \in 1..Len(results) : Usable(results[i]))
        => /\ extractorCalls = <<>>
           /\ retryLog = <<>>
           /\ RetryScrapeDelay \notin Range(sleeps)
           /\ pc \notin {"retryDelay", "retryCall", "retryWait"}
           /\ Returned => ret.elems = results

C1_Witness ==
    /\ Returned
    /\ Len(results) >= 2
    /\ \A i \in 1..Len(results) : Usable(results[i])
    /\ ret.elems = results

\* C2: a non-empty returned list is the bulk successes in bulk output order
\* followed by the retry successes in the order the retries were attempted.
C2_MergeOrder ==
    (Returned /\ Len(ret.elems) > 0)
        => LET n == Len(BulkSuccesses) IN
            /\ Len(ret.elems) = n + Len(RetrySuccessURLs)
            /\ SubSeq(ret.elems, 1, n) = BulkSuccesses
            /\ URLsOf(SubSeq(ret.elems, n + 1, Len(ret.elems))) = RetrySuccessURLs

\* input [A, B, C], bulk success for A and C, failure for B, retry success for B
C2_Witness ==
    /\ Returned
    /\ urls = <<"A", "B", "C">>
    /\ Usable(results[1]) /\ NotUsable(results[2]) /\ Usable(results[3])
    /\ RetrySuccessURLs = <<"B">>
    /\ URLsOf(ret.elems) = <<"A", "C", "B">>

\* C3: when every bulk result failed and the retry succeeded on a strict
\* subset, the returned list is exactly the retry successes in retry-attempt
\* order, and the retries were attempted in the bulk output order.
C3_AllBulkFailed ==
    (/\ Returned
     /\ Len(results) > 0
     /\ \A i \in 1..Len(results) : NotUsable(results[i])
     /\ \E j \in 1..Len(retryLog) : ~retryLog[j].ok)
        => /\ URLsOf(ret.elems) = RetrySuccessURLs
           /\ RetriedURLs = URLsOf(results)
           /\ extractorCalls = URLsOf(results)

C3_Witness ==
    /\ Returned
    /\ urls = <<"A", "B", "C">>
    /\ \A i \in 1..Len(results) : NotUsable(results[i])
    /\ Len(retryLog) = 3
    /\ retryLog[1].ok /\ ~retryLog[2].ok /\ retryLog[3].ok
    /\ URLsOf(ret.elems) = <<"A", "C">>

\* C4: when no URL succeeds in the bulk phase and none in the retry phase,
\* ScrapeInParallel returns an empty list that is not nil.
C4_EmptyNotNil ==
    (/\ Returned
     /\ \A i \in 1..Len(results) : NotUsable(results[i])
     /\ \A j \in 1..Len(retryLog) : ~retryLog[j].ok)
        => ret = EmptySlice

\* input [X]: empty content and no error from the bulk phase, empty content
\* again from the retry
C4_Witness ==
    /\ Returned
    /\ Len(urls) = 1
    /\ results[1].Content = "" /\ results[1].Error = NilErr
    /\ Len(retryLog) = 1 /\ ~retryLog[1].ok
    /\ resp.content = "" /\ resp.err = NilErr
    /\ ret = EmptySlice

\* C5: every entry of the returned list has a nil Error and non-empty Content.
C5_SuccessOnly ==
    Returned =>
        \A i \in 1..Len(ret.elems) :
            ret.elems[i].Error = NilErr /\ ret.elems[i].Content # ""

C5_Witness ==
    /\ Returned
    /\ \E i \in 1..Len(results) : results[i].Error # NilErr
    /\ \E j \in 1..Len(retryLog) : ~retryLog[j].ok
    /\ \E i \in 1..Len(ret.elems) : ret.elems[i].Content = "bulk text"
    /\ \E i \in 1..Len(ret.elems) : ret.elems[i].Content = "retry text"

\* C6: with one bulk result per input URL, a URL of the input is in the
\* returned list exactly when it succeeded in the bulk phase, or failed there
\* and succeeded in the retry phase; no returned entry carries an error.
C6_PresentIffSucceeded ==
    Returned =>
        /\ URLsOf(results) = urls
        /\ \A u \in Range(urls) :
            (u \in Range(URLsOf(ret.elems)))
                <=> \/ \E i \in 1..Len(results) : results[i].URL = u /\ Usable(results[i])
                    \/ /\ \E i \in 1..Len(results) :
                            results[i].URL = u /\ NotUsable(results[i])
                       /\ \E j \in 1..Len(retryLog) :
                            retryLog[j].url = u /\ retryLog[j].ok
        /\ \A i \in 1..Len(ret.elems) : ret.elems[i].Error = NilErr

\* A succeeds in the bulk phase, B in the retry phase, C in neither
C6_Witness ==
    /\ Returned
    /\ urls = <<"A", "B", "C">>
    /\ Usable(results[1]) /\ NotUsable(results[2]) /\ NotUsable(results[3])
    /\ retryLog = <<[url |-> "B", ok |-> TRUE], [url |-> "C", ok |-> FALSE]>>
    /\ Range(URLsOf(ret.elems)) = {"A", "B"}

\* C7 as stated: in the returned list a URL appears at most once, for every
\* input list, lists that repeat a URL included.
C7_Original == Returned => NoDup(URLsOf(ret.elems))

\* C7, amended: when the bulk result list holds no URL twice (as it does for
\* an input list without repeated URLs), a URL appears at most once in the
\* returned list.
C7_NoDupWhenInputDistinct ==
    (Returned /\ NoDup(URLsOf(results))) => NoDup(URLsOf(ret.elems))

C7_Witness ==
    /\ Returned
    /\ NoDup(urls)
    /\ Len(urls) = 3
    /\ Len(ret.elems) = 3
    /\ Len(BulkSuccesses) = 1
    /\ Len(RetrySuccessURLs) = 2

\* C8 as stated: after classifyResults every URL of the bulk result list is
\* in exactly one of successfulResults and failedURLs.
C8_Original ==
    AfterClassify =>
        \A u \in Range(URLsOf(results)) : InSuccessful(u) # InFailed(u)

\* C8, amended: every URL of the bulk result list is in at least one of the
\* two outputs, the two outputs together hold one entry per bulk result, and
\* when the URLs of the bulk result list are pairwise distinct no URL is in
\* both outputs.
C8_Partition ==
    AfterClassify =>
        /\ \A u \in Range(URLsOf(results)) : InSuccessful(u) \/ InFailed(u)
        /\ Len(successfulResults.elems) + Len(failedURLs.elems) = Len(results)
        /\ NoDup(URLsOf(results)) =>
              \A u \in Range(URLsOf(results)) : ~(InSuccessful(u) /\ InFailed(u))

C8_Witness ==
    /\ AfterClassify
    /\ NoDup(URLsOf(results))
    /\ Len(results) = 3
    /\ Len(successfulResults.elems) = 1
    /\ Len(failedURLs.elems) = 2

\* C9: classifyResults keeps a bulk result as successful exactly when it has
\* no error and non-empty content; every other result, a nil error with
\* empty content and any non-nil error included, goes to failedURLs.
C9_UsableRule ==
    AfterClassify =>
        /\ successfulResults.elems = BulkSuccesses
        /\ failedURLs.elems = URLsOf(BulkFailures)

C9_Witness ==
    /\ AfterClassify
    /\ Len(results) = 3
    /\ results[1].Error = NilErr /\ results[1].Content = ""
    /\ results[2].Error # NilErr /\ results[2].Content # ""
    /\ Usable(results[3])
    /\ failedURLs.elems = <<results[1].URL, results[2].URL>>
    /\ successfulResults.elems = <<results[3]>>

\* C10 as stated: a bulk result with a non-nil error and non-empty content is
\* put into successful, and the URL of a result that failed or has empty
\* content is put into failedURLs.
C10_Original ==
    AfterClassify =>
        /\ \A i \in 1..Len(results) :
            (results[i].Error # NilErr /\ results[i].Content # "")
                => results[i] \in Range(successfulResults.elems)
        /\ \A i \in 1..Len(results) :
            (results[i].Error # NilErr \/ results[i].Content = "")
                => results[i].URL \in Range(failedURLs.elems)

\* C10, amended: a bulk result with a nil error and non-empty content is put
\* into successful, nothing else is, and the URL of a result that failed or
\* has empty content is put into failedURLs.
C10_NilErrorIsSuccess ==
    AfterClassify =>
        /\ \A i \in 1..Len(results) :
            (results[i].Error = NilErr /\ results[i].Content # "")
                => results[i] \in Range(successfulResults.elems)
        /\ \A r \in Range(successfulResults.elems) :
            r.Error = NilErr /\ r.Content # ""
        /\ \A i \in 1..Len(results) :
            (results[i].Error # NilErr \/ results[i].Content = "")
                => results[i].URL \in Range(failedURLs.elems)

C10_Witness ==
    /\ AfterClassify
    /\ \E i \in 1..Len(results) :
        /\ results[i].Error = NilErr /\ results[i].Content # ""
        /\ results[i] \in Range(successfulResults.elems)
    /\ \E i \in 1..Len(results) :
        /\ results[i].Error # NilErr /\ results[i].Content # ""
        /\ results[i] \notin Range(successfulResults.elems)
        /\ results[i].URL \in Range(failedURLs.elems)

\* the retry that finished last, as logged
LastRetry == retryLog[Len(retryLog)]

\* resp and LastRetry describe the same, finished, retry
RetryJustReturned == Len(retryLog) > 0 /\ pc \in {"retryCall", "final", "done"}

\* Extractor calls issued and not yet returned
InFlight == Len(extractorCalls) - Len(retryLog)

\* the positions of s that hold d
Occurrences(s, d) == {i \in 1..Len(s) : s[i] = d}

\* C11 as stated: a retry is a failure exactly when the Extractor returned an
\* error, or the content is empty and no body was located; every other
\* result is accumulated as a success.
C11_Original ==
    RetryJustReturned =>
        (~LastRetry.ok) <=>
            \/ resp.err # NilErr
            \/ resp.content = "" /\ ~resp.hasBodyFound

\* C11, amended: a retry is a failure exactly when the Extractor returned an
\* error, or the content is empty, or no body was located; a result is
\* accumulated as a success only with no error, non-empty content and
\* bodyFound = true, and then with the retried URL and the returned content.
C11_RetryRule ==
    RetryJustReturned =>
        /\ (~LastRetry.ok) <=>
              \/ resp.err # NilErr
              \/ resp.content = ""
              \/ ~resp.hasBodyFound
        /\ LastRetry.ok =>
              /\ Len(retriedSuccessfulResults.elems) > 0
              /\ retriedSuccessfulResults.elems[Len(retriedSuccessfulResults.elems)]
                    = [URL |-> LastRetry.url, Content |-> resp.content,
                       Error |-> NilErr]
        /\ Len(retriedSuccessfulResults.elems) = Len(RetrySuccessURLs)

\* no error, non-empty content, bodyFound = false: logged as a failure and
\* not accumulated
C11_Witness ==
    /\ RetryJustReturned
    /\ resp = [content |-> "retry text", hasBodyFound |-> FALSE, err |-> NilErr]
    /\ ~LastRetry.ok
    /\ Len(retryLog) = 1
    /\ retriedSuccessfulResults.elems = <<>>

\* C12: every URL of failedURLs is passed to the Extractor exactly once, in
\* the order of failedURLs, whatever the earlier retries returned: the calls
\* made so far are a prefix of failedURLs, and once the loop is over they are
\* the whole of failedURLs.
C12_EachFailedURLOnce ==
    /\ Len(extractorCalls) <= Len(failedURLs.elems)
    /\ extractorCalls = SubSeq(failedURLs.elems, 1, Len(extractorCalls))
    /\ (pc \in {"final", "done"}) => extractorCalls = failedURLs.elems
    /\ (pc = "retryCall") => Len(extractorCalls) = idx - 1
    /\ (pc = "retryWait") => Len(extractorCalls) = idx

\* the first and the second retry fail, the third URL is still attempted
C12_Witness ==
    /\ Returned
    /\ Len(failedURLs.elems) = 3
    /\ ~retryLog[1].ok /\ ~retryLog[2].ok /\ retryLog[3].ok
    /\ extractorCalls = failedURLs.elems

\* C13: the Extractor is called for a URL only if a bulk result of that URL
\* had an error or empty content, and every such bulk result is retried: when
\* ScrapeInParallel returns, the calls are the URLs of the unusable bulk
\* results, in bulk order.
C13_RetryOnlyBulkFailures ==
    /\ \A j \in 1..Len(extractorCalls) :
          \E i \in 1..Len(results) :
              results[i].URL = extractorCalls[j] /\ NotUsable(results[i])
    /\ Returned => extractorCalls = URLsOf(BulkFailures)

\* a single bulk failure among successes is retried, and fails again
C13_Witness ==
    /\ Returned
    /\ urls = <<"A", "B", "C">>
    /\ Usable(results[1]) /\ NotUsable(results[2]) /\ Usable(results[3])
    /\ extractorCalls = <<"B">>
    /\ ~retryLog[1].ok
    /\ URLsOf(ret.elems) = <<"A", "C">>

\* C14: at most one Extractor call of the retry loop is in flight, a call is
\* in flight only while the loop waits for it, the next call is issued only
\* after the previous one returned, and the accumulated list holds exactly
\* the successes logged so far.
C14_SequentialRetries ==
    /\ InFlight \in {0, 1}
    /\ (InFlight = 1) <=> (pc = "retryWait")
    /\ (pc = "retryCall") => Len(retryLog) = Len(extractorCalls)
    /\ (pc \in {"retryCall", "retryWait"}) =>
          URLsOf(retriedSuccessfulResults.elems) = RetrySuccessURLs

\* the second retry is in flight after the first one returned
C14_Witness ==
    /\ pc = "retryWait"
    /\ Len(extractorCalls) = 2
    /\ Len(retryLog) = 1
    /\ InFlight = 1

\* C15: the bulk call and the retry calls never overlap: no Extractor call is
\* made while the bulk call is in flight, and when the first one is made the
\* bulk fetcher has returned and both delays have been slept, in this order.
C15_PhasesDoNotOverlap ==
    /\ (pc \in {"idle", "bulk", "initialDelay", "classify", "retryDelay"})
          => extractorCalls = <<>>
    /\ Len(extractorCalls) > 0 =>
          /\ BulkDone
          /\ Len(sleeps) >= 2
          /\ sleeps[1] = InitialScrapeDelay
          /\ sleeps[2] = RetryScrapeDelay

C15_Witness ==
    /\ pc = "retryWait"
    /\ Len(extractorCalls) = 1
    /\ Len(results) > 0
    /\ sleeps = <<InitialScrapeDelay, RetryScrapeDelay>>

\* C16: the initial delay is slept exactly once in every invocation, after
\* the bulk call returned and before classification, whether or not a bulk
\* result failed.
C16_InitialDelayOnce ==
    /\ (pc \in {"idle", "bulk", "initialDelay"}) => sleeps = <<>>
    /\ (pc = "classify") =>
          /\ sleeps = <<InitialScrapeDelay>>
          /\ successfulResults = NilSlice /\ failedURLs = NilSlice
    /\ (pc \in {"classify", "retryDelay", "retryCall", "retryWait", "final", "done"})
          => Occurrences(sleeps, InitialScrapeDelay) = {1}

\* the input is empty: the delay is slept all the same
C16_Witness ==
    /\ Returned
    /\ urls = <<>>
    /\ sleeps = <<InitialScrapeDelay>>

\* C17: the two delays are the only pauses: the retry delay is slept once,
\* before the first retry call, only when a bulk result failed, and nothing
\* is slept between retries; an invocation sleeps once when no bulk result
\* failed and twice otherwise.
C17_OnlyTwoDelays ==
    /\ (pc = "retryDelay") => sleeps = <<InitialScrapeDelay>>
    /\ (pc \in {"retryCall", "retryWait"})
          => sleeps = <<InitialScrapeDelay, RetryScrapeDelay>>
    /\ Returned =>
          sleeps = IF Len(BulkFailures) = 0
                   THEN <<InitialScrapeDelay>>
                   ELSE <<InitialScrapeDelay, RetryScrapeDelay>>

\* three retries, two sleeps
C17_Witness ==
    /\ Returned
    /\ Len(retryLog) = 3
    /\ sleeps = <<InitialScrapeDelay, RetryScrapeDelay>>

\* C18: once the context is cancelled or expired the retry loop issues no
\* further Extractor call.
C18_NoCallAfterCancel ==
    [][ctxDone => Len(extractorCalls') <= Len(extractorCalls)]_vars

\* ScrapeAndRun has returned: runResult and runErr are its results
RunnerReturned == rpc = "returned"

\* C19: when FetchAndParse fails, ScrapeAndRun returns a nil result and an
\* error that wraps the feed error; FetchAndParse was called once and
\* ScraperExecutor.ScrapeInParallel not at all.
C19_FeedErrorIsFatal ==
    (RunnerReturned /\ feedErr # NilErr) =>
        /\ runResult = NilResult
        /\ runErr # NoError
        /\ runErr.wraps = feedErr
        /\ Len(feedCalls) = 1
        /\ scrapeCalls = <<>>

C19_Witness ==
    /\ RunnerReturned
    /\ feedErr = "parse failed"
    /\ runErr.wraps = "parse failed"
    /\ runResult.isNil
    /\ scrapeCalls = <<>>

\* C20: when the parsed feed yields no URL, ScrapeAndRun returns a non-nil
\* error and a nil result, and ScraperExecutor.ScrapeInParallel is never
\* called in that run.
C20_NoURLsIsFatal ==
    /\ (rpc \in {"scrape", "returned"} /\ feedErr = NilErr
            /\ Len(GetLinks(rssFeed)) = 0)
          => scrapeCalls = <<>>
    /\ (RunnerReturned /\ feedErr = NilErr /\ Len(GetLinks(rssFeed)) = 0)
          => /\ runErr # NoError
             /\ runResult = NilResult

C20_Witness ==
    /\ RunnerReturned
    /\ feedErr = NilErr
    /\ rssFeed.Title = "Feed 1"
    /\ rssFeed.Links = <<>>
    /\ runErr = NoURLsError
    /\ runResult.isNil
    /\ scrapeCalls = <<>>

\* C21: once the feed is parsed and holds a URL, ScrapeAndRun returns a nil
\* error and a RunnerResult whose Results is the slice the ScraperExecutor
\* returned, an empty one included, whose FeedTitle is the feed's title and
\* whose TitlesMap maps each URL of the feed to its title.
C21_ScrapeNeverFails ==
    (RunnerReturned /\ feedErr = NilErr /\ Len(rssFeed.Links) > 0) =>
        /\ runErr = NoError
        /\ ~runResult.isNil
        /\ runResult.Results = scraped
        /\ runResult.FeedTitle = rssFeed.Title
        /\ DOMAIN runResult.TitlesMap = Range(rssFeed.Links)
        /\ \A u \in Range(rssFeed.Links) : runResult.TitlesMap[u] = ItemTitle(u)

C21_Witness ==
    /\ RunnerReturned
    /\ rssFeed.Title = "Feed 2"
    /\ rssFeed.Links = <<"A", "B">>
    /\ scraped = EmptySlice
    /\ runErr = NoError
    /\ runResult.Results = EmptySlice
    /\ runResult.FeedTitle = "Feed 2"

\* C22: ScrapeAndRun derives one context from the caller's, with the timeout
\* ClientTimeout times OverallTimeoutMultiplier, and hands that context to
\* FeedParser.FetchAndParse and to ScraperExecutor.ScrapeInParallel.
C22_OneBoundedContext ==
    rpc # "idle" =>
        /\ runCtx.parent = "ctx"
        /\ runCtx.timeout = config.ClientTimeout * config.OverallTimeoutMultiplier
        /\ Len(feedCalls) = 1
        /\ feedCalls[1].ctx = "runCtx"
        /\ Len(scrapeCalls) <= 1
        /\ \A i \in 1..Len(scrapeCalls) : scrapeCalls[i].ctx = "runCtx"

C22_Witness ==
    /\ rpc = "scrape"
    /\ config.ClientTimeout = 30
    /\ config.OverallTimeoutMultiplier = 60
    /\ runCtx.timeout = 1800
    /\ feedCalls[1].ctx = "runCtx"
    /\ Len(scrapeCalls) = 1
    /\ scrapeCalls[1].ctx = "runCtx"
    /\ scrapeCalls[1].urls = <<"A", "B", "A">>

\* C29: the derived context is cancelled when ScrapeAndRun returns, on the
\* feed error path, on the no-URL path and on normal completion, and
\* ScrapeAndRun does not cancel it while FetchAndParse or ScrapeInParallel
\* is still running.
C29_CancelOnReturnOnly ==
    /\ RunnerReturned => runCtx.cancelled
    /\ rpc \in {"feed", "scrape"} => ~runCtx.cancelled

C29_Witness ==
    /\ RunnerReturned
    /\ runCtx.cancelled
    /\ runCtx.timeout = 20
    /\ ~runResult.isNil
    /\ Len(scraped.elems) = 1

\* the text of an Extractor response that carries one
RetryText == CHOOSE c \in RetryContents : c # ""

\* what the bulk results and the retry outcomes of this invocation alone
\* determine as the returned slice
ExpectedReturn ==
    LET retried == [j \in 1..Len(RetrySuccessURLs) |->
                       [URL |-> RetrySuccessURLs[j], Content |-> RetryText,
                        Error |-> NilErr]]
        all == BulkSuccesses \o retried
    IN IF Len(all) = 0 THEN EmptySlice ELSE [isNil |-> FALSE, elems |-> all]

\* C23: whatever earlier invocations on the same scraper did, an invocation
\* judges each retry by the Extractor's response alone and returns the slice
\* its own bulk results and retry responses determine; so two invocations with
\* the same URL list and the same collaborator responses return the same
\* slice, and a URL that failed earlier is treated like any other.
C23_NoStateBetweenInvocations ==
    /\ RetryJustReturned =>
          (LastRetry.ok <=>
              (resp.err = NilErr /\ resp.content # "" /\ resp.hasBodyFound))
    /\ Returned => ret = ExpectedReturn

\* "A" failed in an earlier invocation; in this one its bulk result is usable
\* and it is returned
C23_Witness ==
    /\ failedEarlier
    /\ Returned
    /\ urls = <<"A", "B">>
    /\ Usable(results[1])
    /\ NotUsable(results[2])
    /\ retryLog = <<[url |-> "B", ok |-> TRUE]>>
    /\ URLsOf(ret.elems) = <<"A", "B">>

\* C24: classifyResults gives the same pair for the same list, and is
\* idempotent: the pair the Classify step left is the one classifyResults
\* gives for the bulk list, and classifying its successful output again
\* returns that output unchanged with no failed URL.
C24_ClassifyIdempotent ==
    BulkDone =>
        LET first == classifyResults(results)
            again == classifyResults(first.successfulResults.elems)
        IN /\ again.successfulResults = first.successfulResults
           /\ Len(again.failedURLs.elems) = 0
           /\ AfterClassify =>
                 /\ successfulResults = first.successfulResults
                 /\ failedURLs = first.failedURLs

\* three bulk results, two of them usable, just classified
C24_Witness ==
    /\ pc = "retryDelay"
    /\ Len(results) = 3
    /\ Usable(results[1]) /\ NotUsable(results[2]) /\ Usable(results[3])
    /\ successfulResults.elems = <<results[1], results[3]>>
    /\ failedURLs.elems = <<results[2].URL>>

\* what the scraper command prints for the slice ScrapeInParallel returned:
\* ScrapeAndRun hands the feed's URLs to ScrapeInParallel and its slice, as it
\* is, to printResults
Printed == printResults(ret.elems)

\* C25: every URL extracted from the feed is printed as a success entry or as
\* a failure entry with its error, so the success count plus the failure
\* count of the summary line is the number of URLs extracted.
C25_EveryURLPrinted ==
    Returned =>
        /\ Printed.successCount + Printed.errorCount = Len(urls)
        /\ \A i \in 1..Len(urls) :
              \E k \in 1..Len(Printed.lines) : Printed.lines[k].URL = urls[i]

\* C26: processFailedURLs returns a nil error after as many Extractor calls
\* as failedURLs has entries, and never makes more; and once the bulk fetcher
\* has returned, ScrapeInParallel eventually returns.
C26_RetryTerminates ==
    /\ [](/\ Len(extractorCalls) <= Len(failedURLs.elems)
          /\ pc \in {"final", "done"} =>
                /\ retryErr = NilErr
                /\ Len(extractorCalls) = Len(failedURLs.elems))
    /\ (pc = "initialDelay") ~> Returned

\* three URLs failed in bulk and in the retry: three Extractor calls, and an
\* empty slice returned
C26_Witness ==
    /\ Returned
    /\ Len(failedURLs.elems) = 3
    /\ Len(extractorCalls) = 3
    /\ retryErr = NilErr
    /\ \A i \in 1..3 : ~retryLog[i].ok
    /\ ret = EmptySlice

\* C27: the returned list is as long as the bulk successes and the retry
\* successes together; the Extractor is called once per bulk failure; with one
\* bulk result per input URL the returned list is no longer than the input;
\* and the logged counts agree: initial_successful is the number of bulk
\* successes, retry_successful is not negative, successful is at most total.
C27_CountsConserved ==
    /\ BulkDone => Len(extractorCalls) <= Len(BulkFailures)
    /\ Returned =>
          /\ Len(ret.elems) = Len(BulkSuccesses) + Len(RetrySuccessURLs)
          /\ Len(extractorCalls) = Len(BulkFailures)
          /\ Len(results) = Len(urls) => Len(ret.elems) <= Len(urls)
          /\ initialSuccessfulCount = Len(BulkSuccesses)
          /\ Len(successfulResults.elems) - initialSuccessfulCount
                = Len(RetrySuccessURLs)
          /\ Len(successfulResults.elems) - initialSuccessfulCount >= 0
          /\ Len(successfulResults.elems) <= Len(urls)

\* three URLs: one bulk success, two retries of which one succeeds
C27_Witness ==
    /\ Returned
    /\ Len(urls) = 3
    /\ Len(BulkSuccesses) = 1
    /\ Len(extractorCalls) = 2
    /\ Len(RetrySuccessURLs) = 1
    /\ Len(ret.elems) = 2
    /\ initialSuccessfulCount = 1

\* C28: a bulk success is returned as the bulk fetcher produced it; a retry
\* success is kept, and returned, with the URL that was retried, the text the
\* Extractor returned and a nil Error; and from its call to its return
\* ScrapeInParallel leaves the URL list, and from the bulk fetcher's return on
\* the bulk result list, as they were.
C28_CollaboratorDataKept ==
    /\ [](Returned =>
            LET n == Len(BulkSuccesses) IN
              /\ SubSeq(ret.elems, 1, n) = BulkSuccesses
              /\ SubSeq(ret.elems, n + 1, Len(ret.elems))
                    = retriedSuccessfulResults.elems)
    /\ []((RetryJustReturned /\ LastRetry.ok) =>
            /\ Len(retriedSuccessfulResults.elems) > 0
            /\ retriedSuccessfulResults.elems[Len(retriedSuccessfulResults.elems)]
                  = [URL |-> extractorCalls[Len(retryLog)],
                     Content |-> resp.content, Error |-> NilErr])
    /\ [][/\ pc \notin {"idle", "done"} => urls' = urls
          /\ pc \notin {"idle", "bulk", "done"} => results' = results]_vars

\* A is returned as the bulk fetcher gave it, B as the Extractor gave it
C28_Witness ==
    /\ Returned
    /\ urls = <<"A", "B">>
    /\ results = <<[URL |-> "A", Content |-> "bulk text", Error |-> NilErr],
                   [URL |-> "B", Content |-> "bulk text", Error |-> "err"]>>
    /\ resp = [content |-> "retry text", hasBodyFound |-> TRUE, err |-> NilErr]
    /\ ret.elems = <<[URL |-> "A", Content |-> "bulk text", Error |-> NilErr],
                     [URL |-> "B", Content |-> "retry text", Error |-> NilErr]>>

====
